---- MODULE Spec2Model ----
(***************************************************************************)
(* Model of src/list.cpp: ListNode (circular doubly-linked cell), List     *)
(* (sentinel-anchored ring with a cursor win/_index and a counter          *)
(* _length) and Stack (LIFO view over a List).                             *)
(*                                                                         *)
(* The heap is a pool of ListNode cells addressed by integers.  Every      *)
(* method is a pure operator on a heap record h (one field per C++         *)
(* member), written statement by statement in the order of the source, so  *)
(* that aliasing between the pointers it touches behaves as in the code.   *)
(* An action applies one method to the current heap.                       *)
(***************************************************************************)
EXTENDS Integers, Sequences, FiniteSets, TLC

\* ------------------------------------------------------------------ bounds
MaxNodes == 2          \* ListNode cells the two Lists may hold at once
MaxDepth == 4          \* values a Stack may hold at once
NumVals  == 2          \* distinct gObject payloads
IndexSlack == 0        \* how far _index may stray outside 0..MaxNodes

\* --------------------------------------------------------------- constants
NULL == 0                              \* the null gObject* / "absent"
A == 1                                 \* first List object
B == 2                                 \* second List object
Lists == {A, B}
Vals == 1..NumVals                     \* non-null gObject pointers
PoolSize == IF MaxNodes > MaxDepth THEN MaxNodes ELSE MaxDepth
Pool == 1..PoolSize                    \* addresses handed out by new ListNode(val)
header == [l \in Lists |-> 1 - l]      \* List::header: A -> 0, B -> -1 (never reassigned)
Headers == {header[l] : l \in Lists}
Nodes == Pool \cup Headers
NoNode == PoolSize + 1                 \* "no ListNode" marker for `removed`
Positions == 0..(MaxNodes + 1)         \* arguments tried for GetAt(_pt)

Obj(v) == [t |-> "gObject", v |-> v]   \* a gObject* result
Ptr(l) == [t |-> "List", v |-> l]      \* a List* result
IntRes(i) == [t |-> "int", v |-> i]     \* an int result
Void == [t |-> "void", v |-> 0]

VARIABLES
  _next,     \* ListNode::_next, per cell
  _prev,     \* ListNode::_prev, per cell
  _val,      \* ListNode::_val, per cell
  live,      \* cells currently allocated by new ListNode(val)
  win,       \* List::win, per list
  _index,    \* List::_index, per list
  _length,   \* List::_length, per list
  ret,       \* value returned by the last call
  removed,   \* cell the last call got back from ListNode::remove(), if any
  op,        \* the last call: [name, l, arg, was], was = _length when called
  pushed,    \* Stack history: values pushed while the history is push^n
  popped,    \* Stack history: values returned by the pops that followed
  rt,        \* Stack history shape: "push", "pop" or "off"
  out,       \* the int vector returned by the last call of list2vector
  pc,        \* per list: "live", "dtor" (inside ~List's loop) or "dead"
  ref,       \* reference LIFO sequence of the Stack, newest value first
  expect     \* what the reference sequence returns for the last Stack call

vars == <<_next, _prev, _val, live, win, _index, _length, ret, removed, op,
          pushed, popped, rt, out, pc, ref, expect>>

\* The heap as one record, the argument and result of every method below.
Heap == [next |-> _next, prev |-> _prev, val |-> _val, live |-> live,
         win |-> win, index |-> _index, length |-> _length,
         ret |-> Void, removed |-> NoNode, out |-> <<>>]


\* ---------------------------------------------------------------- ListNode
\* new ListNode(val): the allocator returns some free cell; which one is
\* unobservable, the lowest free address is taken.
NewCell(h) == CHOOSE n \in Pool \ h.live : \A m \in Pool \ h.live : n <= m

ListNode(h, b, v) ==
  [h EXCEPT !.live = @ \cup {b}, !.val[b] = v, !.next[b] = b, !.prev[b] = b]

\* delete of a cell: it leaves the heap; its fields are not read again and
\* are kept in the form ListNode::remove() left them, payload pointer cleared.
DeleteNode(h, n) ==
  [h EXCEPT !.live = @ \ {n}, !.val[n] = NULL]

\* ListNode::insert without its last statement, c->_prev=b.
nodeInsert_noBackLink(h, a, b) ==
  LET c  == h.next[a]
      h1 == [h  EXCEPT !.next[b] = c]
      h2 == [h1 EXCEPT !.prev[b] = a]
  IN  [h2 EXCEPT !.next[a] = b]

nodeInsert(h, a, b) ==
  LET c  == h.next[a]
      h1 == [h  EXCEPT !.next[b] = c]
      h2 == [h1 EXCEPT !.prev[b] = a]
      h3 == [h2 EXCEPT !.next[a] = b]
  IN  [h3 EXCEPT !.prev[c] = b]

nodeRemove(h, n) ==
  LET h1 == [h  EXCEPT !.next[h.prev[n]] = h.next[n]]
      h2 == [h1 EXCEPT !.prev[h1.next[n]] = h1.prev[n]]
      h3 == [h2 EXCEPT !.next[n] = n, !.prev[n] = n]
  IN  [h3 EXCEPT !.removed = n]

splice(h, a, b) ==
  LET an == h.next[a]
      bn == h.next[b]
      h1 == [h  EXCEPT !.next[a] = bn]
      h2 == [h1 EXCEPT !.next[b] = an]
      h3 == [h2 EXCEPT !.prev[an] = b]
  IN  [h3 EXCEPT !.prev[bn] = a]

\* -------------------------------------------------------------------- List
\* List::insert without ++_length.
insert_noCount(h, l, v) ==
  LET b  == NewCell(h)
      h1 == nodeInsert(ListNode(h, b, v), h.win[l], b)
  IN  [h1 EXCEPT !.ret = Obj(v)]

\* List::insert calling header->insert instead of win->insert.
insert_atHeader(h, l, v) ==
  LET b  == NewCell(h)
      h1 == nodeInsert(ListNode(h, b, v), header[l], b)
  IN  [h1 EXCEPT !.length[l] = @ + 1, !.ret = Obj(v)]

insert(h, l, v) ==
  LET b  == NewCell(h)
      h1 == nodeInsert(ListNode(h, b, v), h.win[l], b)
  IN  [h1 EXCEPT !.length[l] = @ + 1, !.ret = Obj(v)]

prepend(h, l, v) ==
  LET b  == NewCell(h)
      h1 == nodeInsert(ListNode(h, b, v), header[l], b)
      h2 == [h1 EXCEPT !.length[l] = @ + 1]
      h3 == IF h2.index[l] > 0 THEN [h2 EXCEPT !.index[l] = @ + 1] ELSE h2
  IN  [h3 EXCEPT !.ret = Obj(v)]

append(h, l, v) ==
  LET b  == NewCell(h)
      h1 == nodeInsert(ListNode(h, b, v), h.prev[header[l]], b)
  IN  [h1 EXCEPT !.length[l] = @ + 1, !.ret = Obj(v)]

\* List::append(List*) splicing after header instead of header->prev().
appendList_atFront(h, dst, src) ==
  LET a  == header[dst]
      h1 == splice(h, a, header[src])
      h2 == [h1 EXCEPT !.length[dst] = @ + h1.length[src]]
      h3 == nodeRemove(h2, header[src])
      h4 == [h3 EXCEPT !.length[src] = 0]
      h5 == [h4 EXCEPT !.win[src] = header[src]]
  IN  [h5 EXCEPT !.ret = Ptr(dst)]

\* List::append(List *l): `this` is dst, the argument is src.
appendList(h, dst, src) ==
  LET a  == h.prev[header[dst]]
      h1 == splice(h, a, header[src])
      h2 == [h1 EXCEPT !.length[dst] = @ + h1.length[src]]
      h3 == nodeRemove(h2, header[src])
      h4 == [h3 EXCEPT !.length[src] = 0]
      h5 == [h4 EXCEPT !.win[src] = header[src]]
  IN  [h5 EXCEPT !.ret = Ptr(dst)]

remove(h, l) ==
  IF h.win[l] = header[l] THEN [h EXCEPT !.ret = Obj(NULL)]
  ELSE
    LET v  == h.val[h.win[l]]
        h1 == [h EXCEPT !.win[l] = h.prev[h.win[l]]]
        d  == h1.next[h1.win[l]]
        h2 == DeleteNode(nodeRemove(h1, d), d)
        h3 == [h2 EXCEPT !.length[l] = @ - 1]
        h4 == [h3 EXCEPT !.index[l] = @ - 1]
    IN  [h4 EXCEPT !.ret = Obj(v)]

\* List::val(gObject *val)
valSet(h, l, v) ==
  IF h.win[l] # header[l]
    THEN [h EXCEPT !.val[h.win[l]] = v, !.ret = Obj(h.val[h.win[l]])]
    ELSE [h EXCEPT !.ret = Obj(NULL)]

\* List::val()
val(h, l) == [h EXCEPT !.ret = Obj(h.val[h.win[l]])]

\* win = win->_prev / win = win->_next, k times (the for loops of GetAt)
RECURSIVE StepBack(_, _, _)
StepBack(h, l, k) ==
  IF k <= 0 THEN h ELSE StepBack([h EXCEPT !.win[l] = h.prev[h.win[l]]], l, k - 1)

RECURSIVE StepFwd(_, _, _)
StepFwd(h, l, k) ==
  IF k <= 0 THEN h ELSE StepFwd([h EXCEPT !.win[l] = h.next[h.win[l]]], l, k - 1)

\* List::GetAt without the test _pt > _length.
GetAt_noUpperCheck(h, l, pt) ==
  IF pt < 1 THEN [h EXCEPT !.ret = Obj(NULL)]
  ELSE IF pt < h.index[l] THEN
    LET h1 == StepBack(h, l, h.index[l] - pt)
        h2 == [h1 EXCEPT !.index[l] = pt]
    IN  [h2 EXCEPT !.ret = Obj(h2.val[h2.win[l]])]
  ELSE IF pt > h.index[l] THEN
    LET h1 == StepFwd(h, l, pt - h.index[l])
        h2 == [h1 EXCEPT !.index[l] = pt]
    IN  [h2 EXCEPT !.ret = Obj(h2.val[h2.win[l]])]
  ELSE [h EXCEPT !.ret = Obj(h.val[h.win[l]])]

GetAt(h, l, pt) ==
  IF (pt < 1) \/ (pt > h.length[l]) THEN [h EXCEPT !.ret = Obj(NULL)]
  ELSE IF pt < h.index[l] THEN
    LET h1 == StepBack(h, l, h.index[l] - pt)
        h2 == [h1 EXCEPT !.index[l] = pt]
    IN  [h2 EXCEPT !.ret = Obj(h2.val[h2.win[l]])]
  ELSE IF pt > h.index[l] THEN
    LET h1 == StepFwd(h, l, pt - h.index[l])
        h2 == [h1 EXCEPT !.index[l] = pt]
    IN  [h2 EXCEPT !.ret = Obj(h2.val[h2.win[l]])]
  ELSE [h EXCEPT !.ret = Obj(h.val[h.win[l]])]

\* List::next without the wrap if(_index>_length) _index=0.
next_noWrap(h, l) ==
  LET h1 == [h  EXCEPT !.win[l] = h.next[h.win[l]]]
      h2 == [h1 EXCEPT !.index[l] = @ + 1]
  IN  [h2 EXCEPT !.ret = Obj(h2.val[h2.win[l]])]

next(h, l) ==
  LET h1 == [h  EXCEPT !.win[l] = h.next[h.win[l]]]
      h2 == [h1 EXCEPT !.index[l] = @ + 1]
      h3 == IF h2.index[l] > h2.length[l] THEN [h2 EXCEPT !.index[l] = 0] ELSE h2
  IN  [h3 EXCEPT !.ret = Obj(h3.val[h3.win[l]])]

\* List::prev wrapping to _length+_index, without the +1.
prev_noPlusOne(h, l) ==
  LET h1 == [h  EXCEPT !.win[l] = h.prev[h.win[l]]]
      h2 == [h1 EXCEPT !.index[l] = @ - 1]
      h3 == IF h2.index[l] < 0
              THEN [h2 EXCEPT !.index[l] = h2.length[l] + h2.index[l]]
              ELSE h2
  IN  [h3 EXCEPT !.ret = Obj(h3.val[h3.win[l]])]

prev(h, l) ==
  LET h1 == [h  EXCEPT !.win[l] = h.prev[h.win[l]]]
      h2 == [h1 EXCEPT !.index[l] = @ - 1]
      h3 == IF h2.index[l] < 0
              THEN [h2 EXCEPT !.index[l] = h2.length[l] + h2.index[l] + 1]
              ELSE h2
  IN  [h3 EXCEPT !.ret = Obj(h3.val[h3.win[l]])]

first(h, l) ==
  LET h1 == [h  EXCEPT !.win[l] = h.next[header[l]]]
      h2 == [h1 EXCEPT !.index[l] = 1]
  IN  [h2 EXCEPT !.ret = Obj(h2.val[h2.win[l]])]

last(h, l) ==
  LET h1 == [h  EXCEPT !.win[l] = h.prev[header[l]]]
      h2 == [h1 EXCEPT !.index[l] = h1.length[l]]
  IN  [h2 EXCEPT !.ret = Obj(h2.val[h2.win[l]])]

length(h, l) == h.length[l]

\* List::isFirst
isFirst(h, l) ==
  [h EXCEPT !.ret = IntRes(IF h.win[l] = h.next[header[l]] /\ h.length[l] > 0
                             THEN 1 ELSE 0)]

\* List::isLast
isLast(h, l) ==
  [h EXCEPT !.ret = IntRes(IF h.win[l] = h.prev[header[l]] /\ h.length[l] > 0
                             THEN 1 ELSE 0)]

\* List::isHead
isHead(h, l) ==
  [h EXCEPT !.ret = IntRes(IF h.win[l] = header[l] THEN 1 ELSE 0)]

\* List::List
List(h, l) ==
  LET h1 == [h  EXCEPT !.next[header[l]] = header[l],
                       !.prev[header[l]] = header[l],
                       !.val[header[l]] = NULL]
      h2 == [h1 EXCEPT !.win[l] = header[l]]
      h3 == [h2 EXCEPT !.length[l] = 0]
  IN  [h3 EXCEPT !.index[l] = 0]

\* One iteration of the loop of List::~List without its first().
dtorIter_noFirst(h, l) == [remove(h, l) EXCEPT !.ret = Void]

\* One iteration of the loop of List::~List: first(); delete remove();
\* the deleted gObject is the payload, which the model holds by value.
dtorIter(h, l) == [remove(first(h, l), l) EXCEPT !.ret = Void]

\* ivector1_2: n ints addressed 1..n
ivector1_2(n) == [i \in 1..n |-> 0]

\* The for loop of list2vector from i on, ending on the last read.
RECURSIVE l2vLoop_noLastNext(_, _, _, _)
l2vLoop_noLastNext(h, l, i, n) ==
  IF i > n THEN h
  ELSE LET h1 == val(h, l)
           h2 == [h1 EXCEPT !.out[i] = h1.ret.v]
       IN  IF i = n THEN h2 ELSE l2vLoop_noLastNext(next(h2, l), l, i + 1, n)

\* The for loop of list2vector from i on:
\* out[i]=((gInt*) list->val())->data; list->next();
RECURSIVE l2vLoop(_, _, _, _)
l2vLoop(h, l, i, n) ==
  IF i > n THEN h
  ELSE LET h1 == val(h, l)
           h2 == [h1 EXCEPT !.out[i] = h1.ret.v]
       IN  l2vLoop(next(h2, l), l, i + 1, n)

\* list2vector; the returned pointer is held in out
list2vector(h, l) ==
  LET n  == length(h, l)
      h1 == [h EXCEPT !.out = ivector1_2(n)]
      h2 == first(h1, l)
      h3 == l2vLoop(h2, l, 1, n)
  IN  [h3 EXCEPT !.ret = Void]

\* ------------------------------------------------------------------- Stack
s == A                                 \* Stack::s, the List the Stack wraps

\* Stack::push calling s.append(v) instead of s.prepend(v).
push_atTail(h, v) == [append(h, s, v) EXCEPT !.ret = Void]

push(h, v) == [prepend(h, s, v) EXCEPT !.ret = Void]

pop(h) == remove(first(h, s), s)

empty(h) == [h EXCEPT !.ret = IntRes(IF length(h, s) = 0 THEN 1 ELSE 0)]

size(h) == [h EXCEPT !.ret = IntRes(length(h, s))]

top(h) == first(h, s)

\* Stack::nextToTop without its s.first().
nextToTop_noFirst(h) == next(h, s)

nextToTop(h) == next(first(h, s), s)

bottom(h) == last(h, s)

\* --------------------------------------------------------- derived notions
\* Cells met from n by following next until stop, at most fuel of them.
RECURSIVE Walk(_, _, _, _)
Walk(h, n, stop, fuel) ==
  IF n = stop \/ fuel = 0 THEN <<>>
  ELSE <<n>> \o Walk(h, h.next[n], stop, fuel - 1)

\* The cells of list l in ring order, header excluded.
Ring(h, l) == Walk(h, h.next[header[l]], header[l], PoolSize + 1)

\* Following next from the header comes back to the header.
Closed(h, l) ==
  LET r == Ring(h, l)
  IN  h.next[IF r = <<>> THEN header[l] ELSE r[Len(r)]] = header[l]

\* The payloads of list l in ring order.
Contents(h, l) == LET r == Ring(h, l) IN [i \in 1..Len(r) |-> h.val[r[i]]]

RECURSIVE Reverse(_)
Reverse(q) == IF q = <<>> THEN <<>> ELSE Reverse(Tail(q)) \o <<Head(q)>>

\* ------------------------------------------------------------ construction
\* List::List() for both lists; no cell allocated.
Init ==
  /\ _next = [n \in Nodes |-> n]
  /\ _prev = [n \in Nodes |-> n]
  /\ _val = [n \in Nodes |-> NULL]
  /\ live = {}
  /\ win = [l \in Lists |-> header[l]]
  /\ _index = [l \in Lists |-> 0]
  /\ _length = [l \in Lists |-> 0]
  /\ ret = Void
  /\ removed = NoNode
  /\ op = [name |-> "List", l |-> 0, arg |-> 0, was |-> [l \in Lists |-> 0]]
  /\ pushed = <<>>
  /\ popped = <<>>
  /\ rt = "push"
  /\ out = <<>>
  /\ pc = [l \in Lists |-> "live"]
  /\ ref = <<>>
  /\ expect = Void

\* The heap after a call becomes the current heap.  _index is an int that
\* a caller can drive arbitrarily far; calls that would take it outside
\* -IndexSlack..cap+IndexSlack are not explored.
Apply(h, cap) ==
  /\ \A l \in Lists : h.index[l] \in (0 - IndexSlack)..(cap + IndexSlack)
  /\ _next' = h.next
  /\ _prev' = h.prev
  /\ _val' = h.val
  /\ live' = h.live
  /\ win' = h.win
  /\ _index' = h.index
  /\ _length' = h.length
  /\ ret' = h.ret
  /\ removed' = h.removed
  /\ out' = h.out

Called(name, l, arg) ==
  op' = [name |-> name, l |-> l, arg |-> arg, was |-> _length]

\* ------------------------------------------------------------ List actions
CanAlloc == Cardinality(live) < MaxNodes

NoStack == UNCHANGED <<pushed, popped, rt, ref, expect>>

\* A call on list l: l is constructed and not destroyed, and no destructor
\* is in the middle of its loop (the program is sequential).
Alive(l) ==
  /\ pc[l] = "live"
  /\ \A k \in Lists : pc[k] # "dtor"
  /\ pc' = pc

ListInsert(l, v) ==
  /\ Alive(l)
  /\ CanAlloc
  /\ Apply(insert(Heap, l, v), MaxNodes)
  /\ Called("insert", l, v) /\ NoStack

ListPrepend(l, v) ==
  /\ Alive(l)
  /\ CanAlloc
  /\ Apply(prepend(Heap, l, v), MaxNodes)
  /\ Called("prepend", l, v) /\ NoStack

ListAppend(l, v) ==
  /\ Alive(l)
  /\ CanAlloc
  /\ Apply(append(Heap, l, v), MaxNodes)
  /\ Called("append", l, v) /\ NoStack

\* append(List*) is called between distinct lists only.
ListAppendList(dst, src) ==
  /\ Alive(dst) /\ pc[src] = "live"
  /\ dst # src
  /\ Apply(appendList(Heap, dst, src), MaxNodes)
  /\ Called("appendList", dst, src) /\ NoStack

ListRemove(l) ==
  /\ Alive(l)
  /\ Apply(remove(Heap, l), MaxNodes)
  /\ Called("remove", l, 0) /\ NoStack

ListValSet(l, v) ==
  /\ Alive(l)
  /\ Apply(valSet(Heap, l, v), MaxNodes)
  /\ Called("valSet", l, v) /\ NoStack

ListVal(l) ==
  /\ Alive(l)
  /\ Apply(val(Heap, l), MaxNodes)
  /\ Called("val", l, 0) /\ NoStack

ListGetAt(l, pt) ==
  /\ Alive(l)
  /\ Apply(GetAt(Heap, l, pt), MaxNodes)
  /\ Called("GetAt", l, pt) /\ NoStack

ListNext(l) ==
  /\ Alive(l)
  /\ Apply(next(Heap, l), MaxNodes)
  /\ Called("next", l, 0) /\ NoStack

ListPrev(l) ==
  /\ Alive(l)
  /\ Apply(prev(Heap, l), MaxNodes)
  /\ Called("prev", l, 0) /\ NoStack

ListFirst(l) ==
  /\ Alive(l)
  /\ Apply(first(Heap, l), MaxNodes)
  /\ Called("first", l, 0) /\ NoStack

ListLast(l) ==
  /\ Alive(l)
  /\ Apply(last(Heap, l), MaxNodes)
  /\ Called("last", l, 0) /\ NoStack

ListIsFirst(l) ==
  /\ Alive(l)
  /\ Apply(isFirst(Heap, l), MaxNodes)
  /\ Called("isFirst", l, 0) /\ NoStack

ListIsLast(l) ==
  /\ Alive(l)
  /\ Apply(isLast(Heap, l), MaxNodes)
  /\ Called("isLast", l, 0) /\ NoStack

ListIsHead(l) ==
  /\ Alive(l)
  /\ Apply(isHead(Heap, l), MaxNodes)
  /\ Called("isHead", l, 0) /\ NoStack

List2Vector(l) ==
  /\ Alive(l)
  /\ Apply(list2vector(Heap, l), MaxNodes)
  /\ Called("list2vector", l, 0) /\ NoStack

\* ~List, one step per evaluation of its loop test.  The test is true:
\* one iteration.
ListDtorIter(l) ==
  /\ pc[l] \in {"live", "dtor"}
  /\ \A k \in Lists \ {l} : pc[k] # "dtor"
  /\ length(Heap, l) > 0
  /\ Apply(dtorIter(Heap, l), MaxNodes)
  /\ pc' = [pc EXCEPT ![l] = "dtor"]
  /\ Called("~List iteration", l, 0) /\ NoStack

\* The loop test is false: delete header, the List is gone.
ListDtorExit(l) ==
  /\ pc[l] \in {"live", "dtor"}
  /\ \A k \in Lists \ {l} : pc[k] # "dtor"
  /\ ~(length(Heap, l) > 0)
  /\ Apply(Heap, MaxNodes)
  /\ pc' = [pc EXCEPT ![l] = "dead"]
  /\ Called("~List exit", l, 0) /\ NoStack

\* A List is constructed again where a destroyed one was.
ListCtor(l) ==
  /\ pc[l] = "dead"
  /\ \A k \in Lists : pc[k] # "dtor"
  /\ Apply(List(Heap, l), MaxNodes)
  /\ pc' = [pc EXCEPT ![l] = "live"]
  /\ Called("List", l, 0) /\ NoStack

Next ==
  \/ \E l \in Lists, v \in Vals : ListInsert(l, v)
  \/ \E l \in Lists, v \in Vals : ListPrepend(l, v)
  \/ \E l \in Lists, v \in Vals : ListAppend(l, v)
  \/ \E dst \in Lists, src \in Lists : ListAppendList(dst, src)
  \/ \E l \in Lists : ListRemove(l)
  \/ \E l \in Lists, v \in Vals : ListValSet(l, v)
  \/ \E l \in Lists : ListVal(l)
  \/ \E l \in Lists, pt \in Positions : ListGetAt(l, pt)
  \/ \E l \in Lists : ListNext(l)
  \/ \E l \in Lists : ListPrev(l)
  \/ \E l \in Lists : ListFirst(l)
  \/ \E l \in Lists : ListLast(l)
  \/ \E l \in Lists : ListIsFirst(l)
  \/ \E l \in Lists : ListIsLast(l)
  \/ \E l \in Lists : ListIsHead(l)
  \/ \E l \in Lists : List2Vector(l)
  \/ \E l \in Lists : ListDtorIter(l)
  \/ \E l \in Lists : ListDtorExit(l)
  \/ \E l \in Lists : ListCtor(l)

Spec == Init /\ [][Next]_vars

\* A destructor that has entered its loop runs on: ~List is straight-line
\* sequential code, nothing else is scheduled before it returns.
DtorRun == \E l \in Lists : pc[l] = "dtor" /\ (ListDtorIter(l) \/ ListDtorExit(l))

SpecDtor == Init /\ [][Next]_vars /\ WF_vars(DtorRun)

\* ----------------------------------------------------------- Stack actions
\* A Stack is used through its own methods only; its List s is private.
\* pushed/popped/rt record the history while it has the shape
\* push^n pop^m (m <= n) since construction; any other call turns it off.
HistOff == rt' = "off" /\ pushed' = <<>> /\ popped' = <<>>

\* The reference LIFO sequence becomes r and returns e.
Lifo(r, e) == ref' = r /\ expect' = e

\* k-th newest value of the reference sequence, absent if it has fewer
RefAt(k) == Obj(IF k \in 1..Len(ref) THEN ref[k] ELSE NULL)

StackPush(v) ==
  /\ Alive(s)
  /\ _length[s] < MaxDepth
  /\ Apply(push(Heap, v), MaxDepth)
  /\ Called("push", s, v)
  /\ Lifo(<<v>> \o ref, Void)
  /\ IF rt = "push"
       THEN rt' = "push" /\ pushed' = Append(pushed, v) /\ popped' = popped
       ELSE HistOff

StackPop ==
  /\ Alive(s)
  /\ Apply(pop(Heap), MaxDepth)
  /\ Called("pop", s, 0)
  /\ Lifo(IF ref = <<>> THEN ref ELSE Tail(ref), RefAt(1))
  /\ IF rt \in {"push", "pop"} /\ Len(popped) < Len(pushed)
       THEN rt' = "pop" /\ pushed' = pushed /\ popped' = Append(popped, ret'.v)
       ELSE HistOff

StackTop ==
  /\ Alive(s)
  /\ Apply(top(Heap), MaxDepth)
  /\ Called("top", s, 0) /\ HistOff
  /\ Lifo(ref, RefAt(1))

StackNextToTop ==
  /\ Alive(s)
  /\ Apply(nextToTop(Heap), MaxDepth)
  /\ Called("nextToTop", s, 0) /\ HistOff
  /\ Lifo(ref, RefAt(2))

StackBottom ==
  /\ Alive(s)
  /\ Apply(bottom(Heap), MaxDepth)
  /\ Called("bottom", s, 0) /\ HistOff
  /\ Lifo(ref, RefAt(Len(ref)))

StackEmpty ==
  /\ Alive(s)
  /\ Apply(empty(Heap), MaxDepth)
  /\ Called("empty", s, 0) /\ HistOff
  /\ Lifo(ref, IntRes(IF ref = <<>> THEN 1 ELSE 0))

StackSize ==
  /\ Alive(s)
  /\ Apply(size(Heap), MaxDepth)
  /\ Called("size", s, 0) /\ HistOff
  /\ Lifo(ref, IntRes(Len(ref)))

NextStack ==
  \/ \E v \in Vals : StackPush(v)
  \/ StackPop
  \/ StackTop
  \/ StackNextToTop
  \/ StackBottom
  \/ StackEmpty
  \/ StackSize

SpecStack == Init /\ [][NextStack]_vars

\* =================================================================== claims
\* next() applied k times
RECURSIVE IterNext(_, _, _)
IterNext(h, l, k) == IF k <= 0 THEN h ELSE IterNext(next(h, l), l, k - 1)

\* The cursor of l in heap h sits where it sits in the current heap.
SameCursor(h, l) == h.win[l] = win[l] /\ h.index[l] = _index[l]

\* l is as List::List() leaves a list.
IsFresh(h, l) ==
  /\ h.next[header[l]] = header[l]
  /\ h.prev[header[l]] = header[l]
  /\ h.length[l] = 0
  /\ h.win[l] = header[l]
  /\ h.index[l] = 0

\* C1: in every reachable state, for both lists, 0 <= index <= length and
\* index = 0 exactly when window = header.
C1_CursorInvariant ==
  \A l \in Lists :
    /\ 0 <= _index[l] /\ _index[l] <= _length[l]
    /\ (_index[l] = 0) <=> (win[l] = header[l])

\* C2: length equals the number of cells met from header by following next
\* until header is met again (and header is met again).
C2_LengthIsRingCount ==
  \A l \in Lists : Closed(Heap, l) /\ _length[l] = Len(Ring(Heap, l))

\* C2 witness: a remove() that took a cell out of a two-element list.
C2_Witness ==
  /\ op.name = "remove" /\ op.was[op.l] = 2
  /\ removed \in Pool /\ _length[op.l] = 1

\* C3: every cell of every ring (headers included) has next(prev(n)) = n and
\* prev(next(n)) = n, and the cell a call unlinked with ListNode::remove()
\* is a singleton ring.
C3_RingWellFormed ==
  /\ \A n \in live \cup Headers : _next[_prev[n]] = n /\ _prev[_next[n]] = n
  /\ \A l \in Lists : \A i \in 1..Len(Ring(Heap, l)) : Ring(Heap, l)[i] \in live
  /\ removed # NoNode => _next[removed] = removed /\ _prev[removed] = removed

\* C3 witness: append(List) of a non-empty source onto a non-empty
\* destination has unlinked the source's header.
C3_Witness ==
  /\ op.name = "appendList" /\ removed = header[op.arg]
  /\ op.was[op.l] >= 1 /\ op.was[op.arg] >= 1

\* C4: GetAt(k) with 1 <= k <= length returns the value of the k-th element
\* counted from header.next (the value first() and k-1 next() calls reach),
\* and leaves window on that k-th cell and index = k.
C4_GetAtReturnsKth ==
  (op.name = "GetAt" /\ 1 <= op.arg /\ op.arg <= op.was[op.l]) =>
    /\ ret = Obj(Contents(Heap, op.l)[op.arg])
    /\ ret = IterNext(first(Heap, op.l), op.l, op.arg - 1).ret
    /\ win[op.l] = Ring(Heap, op.l)[op.arg]
    /\ _index[op.l] = op.arg

\* C5: for distinct lists, dst.append(src) leaves dst's ring holding dst's
\* cells followed by src's cells in order, dst's length the sum of both
\* lengths, src's length 0, and returns dst.
C5_AppendListConcatenates ==
  [][op'.name = "appendList" =>
       LET dst == op'.l
           src == op'.arg
       IN  /\ dst # src
           /\ Ring(Heap', dst) = Ring(Heap, dst) \o Ring(Heap, src)
           /\ Contents(Heap', dst) = Contents(Heap, dst) \o Contents(Heap, src)
           /\ Closed(Heap', dst)
           /\ _length'[dst] = Len(Ring(Heap, dst)) + Len(Ring(Heap, src))
           /\ _length'[src] = 0
           /\ ret' = Ptr(dst)]_vars

\* C5 witness: both lists held an element when append(List) was called.
C5_Witness ==
  /\ op.name = "appendList" /\ ret = Ptr(op.l)
  /\ op.was[op.l] = 1 /\ op.was[op.arg] = 1
  /\ _length[op.l] = 2 /\ _length[op.arg] = 0

\* C6: after dst.append(src) the source is a valid empty list (header a
\* singleton ring, length 0, window its header, index 0) and behaves as a
\* fresh list: append(v) then GetAt(1) returns v.
C6_SourceIsFreshList ==
  op.name = "appendList" =>
    /\ IsFresh(Heap, op.arg)
    /\ Cardinality(live) < PoolSize =>
         \A v \in Vals : GetAt(append(Heap, op.arg, v), op.arg, 1).ret = Obj(v)

\* C7: after pushing v1..vn onto a new Stack, the pops return vn, ..., v1
\* in that order, and after n pops the stack is empty.
C7_PushPopReverses ==
  rt \in {"push", "pop"} =>
    /\ popped = SubSeq(Reverse(pushed), 1, Len(popped))
    /\ size(Heap).ret = IntRes(Len(pushed) - Len(popped))
    /\ Len(popped) = Len(pushed) =>
         empty(Heap).ret = IntRes(1) /\ Ring(Heap, s) = <<>>

\* C7 witness: three values, not all equal, pushed and all popped again.
C7_Witness ==
  /\ rt = "pop" /\ Len(pushed) = 3 /\ Len(popped) = 3
  /\ pushed[1] # pushed[3]
  /\ op.name = "pop"

\* C8 as stated: after first(), the k-th next() for k < n focuses the
\* (k+1)-th element, and the (n+1)-th next() lands on the header with
\* index 0.
C8_HeaderOnNPlusFirstNext ==
  \A l \in Lists :
    LET n  == _length[l]
        h1 == first(Heap, l)
    IN  /\ \A k \in 0..(n - 1) : IterNext(h1, l, k).win[l] = Ring(Heap, l)[k + 1]
        /\ IterNext(h1, l, n + 1).win[l] = header[l]
        /\ IterNext(h1, l, n + 1).index[l] = 0

\* C8 amended: on a list of length n >= 1, first() followed by k next()
\* calls (k < n) focuses the (k+1)-th element with index k+1 and returns
\* its value, and the n-th next() lands on the header with index 0 and
\* returns null.  On an empty list first() leaves the window on the header
\* and the first next() leaves it there with index 0.
C8_HeaderOnNthNext ==
  \A l \in Lists :
    LET n  == _length[l]
        h1 == first(Heap, l)
    IN  /\ \A k \in 0..(n - 1) :
             /\ IterNext(h1, l, k).win[l] = Ring(Heap, l)[k + 1]
             /\ IterNext(h1, l, k).index[l] = k + 1
             /\ IterNext(h1, l, k).ret = Obj(Contents(Heap, l)[k + 1])
        /\ n >= 1 =>
             /\ IterNext(h1, l, n).win[l] = header[l]
             /\ IterNext(h1, l, n).index[l] = 0
             /\ IterNext(h1, l, n).ret = Obj(NULL)
        /\ n = 0 =>
             /\ h1.win[l] = header[l]
             /\ IterNext(h1, l, 1).win[l] = header[l]
             /\ IterNext(h1, l, 1).index[l] = 0

\* C8 witness: next() called on the last of two elements has just landed
\* on the header with index 0.
C8_Witness ==
  /\ op.name = "next" /\ op.was[op.l] = 2
  /\ win[op.l] = header[op.l] /\ _index[op.l] = 0
  /\ ret = Obj(NULL)

\* C9: next() followed by prev(), and prev() followed by next(), restore
\* window and index.
C9_NextPrevIdentity ==
  \A l \in Lists :
    /\ SameCursor(prev(next(Heap, l), l), l)
    /\ SameCursor(next(prev(Heap, l), l), l)

\* C10: remove() called on an empty list returns null and leaves length 0
\* and index 0, the ring still the header alone.
C10_RemoveOnEmpty ==
  (op.name = "remove" /\ op.was[op.l] = 0) =>
    /\ ret = Obj(NULL)
    /\ _length[op.l] = 0
    /\ _index[op.l] = 0
    /\ _next[header[op.l]] = header[op.l]
    /\ _prev[header[op.l]] = header[op.l]

\* q without its p-th element
Without(q, p) == SubSeq(q, 1, p - 1) \o SubSeq(q, p + 1, Len(q))

\* q with x put after its p-th element (in front for p = 0)
WithAfter(q, p, x) == SubSeq(q, 1, p) \o <<x>> \o SubSeq(q, p + 1, Len(q))

\* _index of l is the 1-based ordinal of win in the ring, 0 on the header.
IsOrdinal(h, l) ==
  IF h.index[l] = 0 THEN h.win[l] = header[l]
  ELSE /\ h.index[l] \in 1..Len(Ring(h, l))
       /\ h.win[l] = Ring(h, l)[h.index[l]]

\* C11: remove() with window on the p-th element returns that element's
\* value, decrements length, keeps the order of the other elements, and
\* leaves the cursor at position p-1: index p-1, window on the former
\* (p-1)-th element (val() returns its value), or on the header with
\* index 0 for p = 1.
C11_RemoveAtPosition ==
  [][op'.name = "remove" =>
       LET l == op'.l
           r == Ring(Heap, l)
       IN  \A p \in 1..Len(r) :
             win[l] = r[p] =>
               /\ ret' = Obj(_val[r[p]])
               /\ _length'[l] = _length[l] - 1
               /\ Ring(Heap', l) = Without(r, p)
               /\ Contents(Heap', l) = Without(Contents(Heap, l), p)
               /\ _index'[l] = p - 1
               /\ win'[l] = IF p = 1 THEN header[l] ELSE r[p - 1]
               /\ p > 1 => val(Heap', l).ret = Obj(_val[r[p - 1]])]_vars

\* C12: GetAt(position) with position < 1 or position > length returns
\* null and leaves window, index, length and the ring unchanged.
C12_GetAtOutOfRange ==
  [][(op'.name = "GetAt" /\ (op'.arg < 1 \/ op'.arg > _length[op'.l])) =>
       /\ ret' = Obj(NULL)
       /\ UNCHANGED <<win, _index, _length, _next, _prev, _val, live>>]_vars

\* C12 witness: GetAt beyond the end of a non-empty list whose cursor is
\* on an element.
C12_Witness ==
  /\ op.name = "GetAt" /\ op.arg > op.was[op.l] /\ op.was[op.l] >= 1
  /\ ret = Obj(NULL) /\ win[op.l] # header[op.l]

\* C13: prepend(value) makes value the first element, increments length,
\* leaves window on the same cell, increments index exactly when
\* index > 0, and afterwards index is the 1-based ordinal of window (0 on
\* the header).
C13_PrependKeepsOrdinal ==
  [][op'.name = "prepend" =>
       LET l == op'.l
       IN  /\ Ring(Heap', l) = <<NewCell(Heap)>> \o Ring(Heap, l)
           /\ Contents(Heap', l) = <<op'.arg>> \o Contents(Heap, l)
           /\ _length'[l] = _length[l] + 1
           /\ win'[l] = win[l]
           /\ _index'[l] = IF _index[l] > 0 THEN _index[l] + 1 ELSE _index[l]
           /\ IsOrdinal(Heap', l)]_vars

\* C14: insert(value) puts a new cell holding value right after window
\* (in front when window is the header), increments length, leaves window
\* and index unchanged and keeps the order of the other elements.
C14_InsertAfterWindow ==
  [][op'.name = "insert" =>
       LET l == op'.l
           r == Ring(Heap, l)
           b == NewCell(Heap)
       IN  /\ _next'[win[l]] = b
           /\ _val'[b] = op'.arg
           /\ \A p \in 0..Len(r) :
                win[l] = (IF p = 0 THEN header[l] ELSE r[p]) =>
                  /\ Ring(Heap', l) = WithAfter(r, p, b)
                  /\ Contents(Heap', l) = WithAfter(Contents(Heap, l), p, op'.arg)
           /\ _length'[l] = _length[l] + 1
           /\ win'[l] = win[l]
           /\ _index'[l] = _index[l]]_vars

\* C14 witness: insert after the focused first element of a one-element
\* list.
C14_Witness ==
  /\ op.name = "insert" /\ op.was[op.l] = 1 /\ _length[op.l] = 2
  /\ _index[op.l] = 1 /\ win[op.l] = Ring(Heap, op.l)[1]
  /\ ret = Obj(_val[Ring(Heap, op.l)[2]])

\* C17: prev() moves window one link backward and decrements index; from
\* the header with index 0 it ends on the last element with index =
\* length (on the header with index 0 if the list is empty).
C17_PrevWrapsToTail ==
  [][op'.name = "prev" =>
       LET l == op'.l
           r == Ring(Heap, l)
       IN  /\ win'[l] = _prev[win[l]]
           /\ _index[l] >= 1 => _index'[l] = _index[l] - 1
           /\ (_index[l] = 0 /\ win[l] = header[l]) =>
                /\ _index'[l] = _length[l]
                /\ win'[l] = IF r = <<>> THEN header[l] ELSE r[Len(r)]]_vars

\* C17 witness: prev() has wrapped onto the last of two elements.
C17_Witness ==
  /\ op.name = "prev" /\ op.was[op.l] = 2
  /\ _index[op.l] = 2 /\ win[op.l] = Ring(Heap, op.l)[2]

\* C19: dst.append(src) leaves dst's window on the same cell and dst's
\* index at the same value, and afterwards dst's index is the 1-based
\* ordinal of dst's window in the merged ring (0 on dst's header).
C19_AppendListKeepsCursor ==
  [][op'.name = "appendList" =>
       LET dst == op'.l
       IN  /\ win'[dst] = win[dst]
           /\ _index'[dst] = _index[dst]
           /\ IsOrdinal(Heap', dst)]_vars

\* C15 as stated: list2vector(list) writes the n payloads in list order to
\* positions 1..n of the result, leaves length and contents unchanged, and
\* leaves the cursor on the last element with index = length.
C15_VectorCursorOnLast ==
  [][op'.name = "list2vector" =>
       LET l == op'.l
           r == Ring(Heap, l)
       IN  /\ out' = Contents(Heap, l)
           /\ _length'[l] = _length[l]
           /\ Ring(Heap', l) = r
           /\ Contents(Heap', l) = Contents(Heap, l)
           /\ _index'[l] = _length[l]
           /\ win'[l] = IF r = <<>> THEN header[l] ELSE r[Len(r)]]_vars

\* C15 amended: list2vector(list) writes the n payloads in list order to
\* positions 1..n of the result, leaves length and contents unchanged, and
\* leaves the window on the header, with index 0 when n >= 1 and with the
\* index 1 of first() when n = 0.
C15_VectorCursorOnHeader ==
  [][op'.name = "list2vector" =>
       LET l == op'.l
           r == Ring(Heap, l)
       IN  /\ out' = Contents(Heap, l)
           /\ DOMAIN out' = 1.._length[l]
           /\ _length'[l] = _length[l]
           /\ Ring(Heap', l) = r
           /\ Contents(Heap', l) = Contents(Heap, l)
           /\ win'[l] = header[l]
           /\ _index'[l] = IF _length[l] >= 1 THEN 0 ELSE 1]_vars

\* C15 witness: list2vector has returned two different payloads in list
\* order.
C15_Witness ==
  /\ op.name = "list2vector" /\ op.was[op.l] = 2
  /\ out = Contents(Heap, op.l) /\ out[1] # out[2]
  /\ win[op.l] = header[op.l] /\ _index[op.l] = 0

\* C16: after every sequence of Stack calls the value returned by the
\* last call is the one the reference LIFO sequence returns, the Stack
\* holds the reference sequence newest first, and its size is the number
\* of remaining values.
C16_StackRefinesLifo ==
  /\ ret = expect
  /\ Contents(Heap, s) = ref
  /\ size(Heap).ret = IntRes(Len(ref))

\* C16 witness: nextToTop has returned the second-newest of two
\* different values.
C16_Witness ==
  /\ op.name = "nextToTop" /\ Len(ref) >= 2 /\ ref[1] # ref[2]
  /\ ret = Obj(ref[2])

\* C18: in every reachable state of a List, isHead() is true exactly
\* when index = 0, isFirst() exactly when length > 0 and index = 1, and
\* isLast() exactly when length > 0 and index = length.
C18_QueriesAgreeWithIndex ==
  \A l \in Lists :
    pc[l] = "live" =>
      /\ isHead(Heap, l).ret = IntRes(IF _index[l] = 0 THEN 1 ELSE 0)
      /\ isFirst(Heap, l).ret =
           IntRes(IF _length[l] > 0 /\ _index[l] = 1 THEN 1 ELSE 0)
      /\ isLast(Heap, l).ret =
           IntRes(IF _length[l] > 0 /\ _index[l] = _length[l] THEN 1 ELSE 0)

\* C20: every iteration of the loop of ~List removes exactly one cell,
\* the first element and never the header, and takes one off length; the
\* loop is left with the header alone in the ring and length 0; and a
\* destructor that has entered its loop leaves it.
C20_DestructorEmptiesRing ==
  /\ [][op'.name = "~List iteration" =>
          LET l == op'.l
              r == Ring(Heap, l)
          IN  /\ r # <<>>
              /\ removed' = r[1]
              /\ removed' \in Pool
              /\ live' = live \ {removed'}
              /\ Ring(Heap', l) = Tail(r)
              /\ _length'[l] = _length[l] - 1]_vars
  /\ [][op'.name = "~List exit" =>
          LET l == op'.l
          IN  /\ Ring(Heap, l) = <<>>
              /\ _next[header[l]] = header[l]
              /\ _prev[header[l]] = header[l]
              /\ _length[l] = 0]_vars
  /\ \A l \in Lists : (pc[l] = "dtor") ~> (pc[l] = "dead")

\* C20 witness: the destructor of a two-element list has done its first
\* iteration.
C20_Witness ==
  /\ op.name = "~List iteration" /\ op.was[op.l] = 2
  /\ pc[op.l] = "dtor" /\ _length[op.l] = 1
  /\ Len(Ring(Heap, op.l)) = 1

====
